---- MODULE Spec2Model ----
(***************************************************************************)
(* A model of src/src/data_cleaning.py: the sales-data cleaning pipeline   *)
(* (load, clean_column_names, strip_product_and_category,                  *)
(* handle_missing_values, remove_invalid_rows, to_csv).                    *)
(*                                                                         *)
(* Strings are sequences of one-character strings.  A DataFrame is a       *)
(* record of its column labels, its row index and its rows; DataFrames     *)
(* live in a heap of objects and the program's names hold references, so   *)
(* that df.copy() and the in-place assignments that follow it are visible. *)
(***************************************************************************)
EXTENDS Integers, Sequences, FiniteSets, TLC

VARIABLES raw_file,   \* the input file (NoFile when there is none)
          heap,       \* the DataFrame objects allocated so far, by reference
          df_raw,     \* reference held by the caller's df_raw (0: unbound)
          df_clean,   \* reference held by the caller's df_clean (0: unbound)
          pc,         \* position of the caller
          out_file    \* the output file (NoFile until it is written)

vars == <<raw_file, heap, df_raw, df_clean, pc, out_file>>

\* ------------------------------------------------------------------ bounds

MaxRows == 2
MaxLabelLen == 3

\* ----------------------------------------------------------------- strings

\* a file is a record: whether it exists, its header row, its lines of texts
NoFile == [exists |-> FALSE, header |-> <<>>, lines |-> <<>>]

UpperCase == <<"A","B","C","D","E","F","G","H","I","J","K","L","M",
               "N","O","P","Q","R","S","T","U","V","W","X","Y","Z">>
LowerCase == <<"a","b","c","d","e","f","g","h","i","j","k","l","m",
               "n","o","p","q","r","s","t","u","v","w","x","y","z">>
DigitChars == <<"0","1","2","3","4","5","6","7","8","9">>

\* the ASCII characters str.strip() removes
Whitespace == {" ", "\t", "\n", "\r"}

IsUpper(ch) == \E i \in 1..Len(UpperCase) : UpperCase[i] = ch

LowerChar(ch) ==
    IF IsUpper(ch)
    THEN LowerCase[CHOOSE i \in 1..Len(UpperCase) : UpperCase[i] = ch]
    ELSE ch

\* str.lower()
StrLower(s) == [i \in 1..Len(s) |-> LowerChar(s[i])]

RECURSIVE LStrip(_)
LStrip(s) ==
    IF s # <<>> /\ Head(s) \in Whitespace THEN LStrip(Tail(s)) ELSE s

RECURSIVE RStrip(_)
RStrip(s) ==
    IF s # <<>> /\ s[Len(s)] \in Whitespace
    THEN RStrip(SubSeq(s, 1, Len(s) - 1))
    ELSE s

\* str.strip()
StrStrip(s) == RStrip(LStrip(s))

\* str.replace(old, new) for a one-character old
ReplaceChar(s, old, new) == [i \in 1..Len(s) |-> IF s[i] = old THEN new ELSE s[i]]

\* "__" in name
HasDoubleUnderscore(s) == \E i \in 1..(Len(s) - 1) : s[i] = "_" /\ s[i + 1] = "_"

\* name.replace("__", "_"): one left-to-right pass over non-overlapping matches
RECURSIVE ReplaceDoubleUnderscore(_)
ReplaceDoubleUnderscore(s) ==
    IF Len(s) < 2 THEN s
    ELSE IF s[1] = "_" /\ s[2] = "_"
         THEN <<"_">> \o ReplaceDoubleUnderscore(SubSeq(s, 3, Len(s)))
         ELSE <<s[1]>> \o ReplaceDoubleUnderscore(Tail(s))

\* a single replace pass in place of the loop
CollapseOnce(name) == ReplaceDoubleUnderscore(name)

RECURSIVE CollapseLoop(_)
CollapseLoop(name) ==
    IF HasDoubleUnderscore(name)
    THEN CollapseLoop(ReplaceDoubleUnderscore(name))
    ELSE name

\* while "__" in name: name = name.replace("__", "_")
CollapseUnderscores(name) == CollapseLoop(name)

\* the separators are replaced, the case is left alone
CleanNameNoLower(c) ==
    CollapseUnderscores(
        ReplaceChar(ReplaceChar(ReplaceChar(StrStrip(c), " ", "_"), "/", "_"), "-", "_"))

\* the body of the loop of clean_column_names, for one label
CleanName(c) ==
    CollapseUnderscores(
        ReplaceChar(ReplaceChar(ReplaceChar(StrLower(StrStrip(c)), " ", "_"),
                                "/", "_"), "-", "_"))

\* sub in s
Contains(s, sub) ==
    \E i \in 0..(Len(s) - Len(sub)) : SubSeq(s, i + 1, i + Len(sub)) = sub

PRODUCT == <<"p","r","o","d","u","c","t">>
CATEGORY == <<"c","a","t","e","g","o","r","y">>
PRICE == <<"p","r","i","c","e">>
QUANTITY == <<"q","u","a","n","t","i","t","y">>

RECURSIVE DigitsOf(_)
DigitsOf(n) ==
    IF n < 10 THEN <<DigitChars[n + 1]>>
    ELSE DigitsOf(n \div 10) \o <<DigitChars[(n % 10) + 1]>>

\* str(n) for an integer
IntStr(n) == IF n < 0 THEN <<"-">> \o DigitsOf(-n) ELSE DigitsOf(n)

IsDigit(ch) == \E i \in 1..Len(DigitChars) : DigitChars[i] = ch

DigitValue(ch) == (CHOOSE i \in 1..Len(DigitChars) : DigitChars[i] = ch) - 1

RECURSIVE NatValue(_)
NatValue(s) ==
    IF s = <<>> THEN 0
    ELSE 10 * NatValue(SubSeq(s, 1, Len(s) - 1)) + DigitValue(s[Len(s)])

AllDigits(s) == s # <<>> /\ \A i \in 1..Len(s) : IsDigit(s[i])

\* ------------------------------------------------------------------- cells

NaN == [t |-> "nan", s |-> <<>>, v |-> 0]
IntCell(n) == [t |-> "int", s |-> <<>>, v |-> n]
FloatCell(n) == [t |-> "float", s |-> <<>>, v |-> n]
StrCell(x) == [t |-> "str", s |-> x, v |-> 0]

IsNa(cell) == cell.t = "nan"

\* the numeric reading of a text: optional sign and digits, surrounding
\* whitespace skipped; anything else is not a number (errors="coerce": NaN).
\* Values are integers; a float cell holds an integral value.
ParseNumber(x) ==
    LET y == StrStrip(x)
    IN  IF AllDigits(y) THEN IntCell(NatValue(y))
        ELSE IF y # <<>> /\ Head(y) = "-" /\ AllDigits(Tail(y))
             THEN IntCell(0 - NatValue(Tail(y)))
             ELSE IF y # <<>> /\ Head(y) = "+" /\ AllDigits(Tail(y))
                  THEN IntCell(NatValue(Tail(y)))
                  ELSE NaN

ToFloat(cell) == IF cell.t = "int" THEN FloatCell(cell.v) ELSE cell

\* one cell of pd.to_numeric(errors="coerce"): a text is parsed, a number
\* or a missing cell is kept
CoerceCell(cell) == IF cell.t = "str" THEN ParseNumber(cell.s) ELSE cell

\* a coercion that re-infers the narrowest type of a column without NaN
ToNumericDowncast(series) ==
    LET parsed == [i \in 1..Len(series) |-> CoerceCell(series[i])]
    IN  IF \A i \in 1..Len(parsed) : parsed[i].t # "nan"
        THEN [i \in 1..Len(parsed) |-> IntCell(parsed[i].v)]
        ELSE [i \in 1..Len(parsed) |-> ToFloat(parsed[i])]

\* pd.to_numeric(series, errors="coerce"): an integer column when every cell
\* is an integer, a float column otherwise (NaN is a float)
ToNumeric(series) ==
    LET parsed == [i \in 1..Len(series) |-> CoerceCell(series[i])]
    IN  IF \A i \in 1..Len(parsed) : parsed[i].t = "int"
        THEN parsed
        ELSE [i \in 1..Len(parsed) |-> ToFloat(parsed[i])]

\* astype(str) that leaves a missing cell missing
CellAsStrKeepNa(cell) ==
    CASE cell.t = "str" -> cell.s
      [] cell.t = "int" -> IntStr(cell.v)
      [] cell.t = "float" -> IntStr(cell.v) \o <<".", "0">>
      [] OTHER -> <<>>

\* astype(str) of one cell
CellAsStr(cell) ==
    CASE cell.t = "str" -> cell.s
      [] cell.t = "int" -> IntStr(cell.v)
      [] cell.t = "float" -> IntStr(cell.v) \o <<".", "0">>
      [] OTHER -> <<"n", "a", "n">>

\* a comparison that lets a missing value through
GeZeroNaNTrue(cell) == cell.t = "nan" \/ (cell.t \in {"int", "float"} /\ cell.v >= 0)

\* series >= 0 for one cell: a comparison with NaN is False
GeZero(cell) == cell.t \in {"int", "float"} /\ cell.v >= 0

\* -------------------------------------------------------------- DataFrames

\* A DataFrame: columns (labels, by position; duplicates allowed), index (row
\* labels) and rows (one sequence of cells per row, by column position).

Column(df, j) == [i \in 1..Len(df.rows) |-> df.rows[i][j]]

Positions(df, label) == {j \in 1..Len(df.columns) : df.columns[j] = label}

\* col in df.columns
HasColumn(df, label) == Positions(df, label) # {}

\* df[col] is a Series when the label is unique, a DataFrame when duplicated
IsSeriesKey(df, label) == Cardinality(Positions(df, label)) = 1

PositionOf(df, label) == CHOOSE j \in Positions(df, label) : TRUE

\* df[col] = series, for a unique label
SetItem(df, label, series) ==
    [df EXCEPT !.rows = [i \in 1..Len(df.rows) |->
                            [df.rows[i] EXCEPT ![PositionOf(df, label)] = series[i]]]]

\* a label assignment that keeps one column per label, the last one declared
SetColumnsLastWins(df, new_cols) ==
    LET keep == {j \in 1..Len(new_cols) :
                    \A k \in (j + 1)..Len(new_cols) : new_cols[k] # new_cols[j]}
        first(j) == CHOOSE k \in 1..Len(new_cols) :
                        /\ new_cols[k] = new_cols[j]
                        /\ \A m \in 1..(k - 1) : new_cols[m] # new_cols[j]
        slots == {first(j) : j \in keep}
        nth(n) == CHOOSE k \in slots : Cardinality({m \in slots : m < k}) = n - 1
        src(n) == CHOOSE j \in keep : first(j) = nth(n)
    IN  [columns |-> [n \in 1..Cardinality(slots) |-> new_cols[src(n)]],
         index |-> df.index,
         rows |-> [i \in 1..Len(df.rows) |->
                      [n \in 1..Cardinality(slots) |-> df.rows[i][src(n)]]]]

\* df.columns = new_cols
SetColumns(df, new_cols) == [df EXCEPT !.columns = new_cols]

RECURSIVE WhereTrue(_, _)
WhereTrue(mask, i) ==
    IF i > Len(mask) THEN <<>>
    ELSE (IF mask[i] THEN <<i>> ELSE <<>>) \o WhereTrue(mask, i + 1)

\* a selection that returns the kept rows last-first
BoolIndexReversed(df, mask) ==
    LET k == WhereTrue(mask, 1)
    IN  [columns |-> df.columns,
         index |-> [n \in 1..Len(k) |-> df.index[k[Len(k) + 1 - n]]],
         rows |-> [n \in 1..Len(k) |-> df.rows[k[Len(k) + 1 - n]]]]

\* df[mask]: a new DataFrame of the rows whose mask is True, labels kept
BoolIndex(df, mask) ==
    LET k == WhereTrue(mask, 1)
    IN  [columns |-> df.columns,
         index |-> [n \in 1..Len(k) |-> df.index[k[n]]],
         rows |-> [n \in 1..Len(k) |-> df.rows[k[n]]]]

\* dropna(how="all"): a row goes only when every listed column is missing
DropNaAll(df, subset) ==
    BoolIndex(df, [i \in 1..Len(df.rows) |->
        \E n \in 1..Len(subset) : ~IsNa(df.rows[i][PositionOf(df, subset[n])])])

\* df.dropna(subset=required_cols)
DropNa(df, subset) ==
    BoolIndex(df, [i \in 1..Len(df.rows) |->
        \A n \in 1..Len(subset) : ~IsNa(df.rows[i][PositionOf(df, subset[n])])])

\* a copy that hands back the same object
CopyAlias(h, r) == [heap |-> h, ref |-> r]

\* df.copy(): a new object holding the same columns, index and cells
Copy(h, r) == [heap |-> Append(h, h[r]), ref |-> Len(h) + 1]

\* ------------------------------------------------------------------ stages
\* A stage takes the heap and the reference it is called with, and answers
\* the heap it leaves, the reference it returns and whether it returned (ok)
\* or raised.

\* a column of a read file: int64 when every cell is an integer, float64 when
\* the others are blank, object (the texts as they are, blanks NaN) otherwise
InferColumn(texts) ==
    IF \A i \in 1..Len(texts) : texts[i] = <<>> \/ ParseNumber(texts[i]) # NaN
    THEN (IF \A i \in 1..Len(texts) : texts[i] # <<>>
          THEN [i \in 1..Len(texts) |-> ParseNumber(texts[i])]
          ELSE [i \in 1..Len(texts) |->
                   IF texts[i] = <<>> THEN NaN ELSE ToFloat(ParseNumber(texts[i]))])
    ELSE [i \in 1..Len(texts) |->
             IF texts[i] = <<>> THEN NaN ELSE StrCell(texts[i])]

\* read_csv renames a repeated header label: x, x.1, x.2
MangleDupes(header) ==
    [j \in 1..Len(header) |->
        LET k == Cardinality({m \in 1..(j - 1) : header[m] = header[j]})
        IN  IF k = 0 THEN header[j] ELSE header[j] \o <<".">> \o IntStr(k)]

\* load_data, for a file that exists: pandas.read_csv
ReadCsv(file) ==
    LET cols == [j \in 1..Len(file.header) |->
                    InferColumn([i \in 1..Len(file.lines) |-> file.lines[i][j]])]
    IN  [columns |-> MangleDupes(file.header),
         index |-> [i \in 1..Len(file.lines) |-> i - 1],
         rows |-> [i \in 1..Len(file.lines) |->
                      [j \in 1..Len(file.header) |-> cols[j][i]]]]

load_data(h, file) ==
    IF ~file.exists
    THEN [heap |-> h, ret |-> 0, ok |-> FALSE]
    ELSE [heap |-> Append(h, ReadCsv(file)), ret |-> Len(h) + 1, ok |-> TRUE]

clean_column_names(h, r) ==
    LET new_cols == [j \in 1..Len(h[r].columns) |-> CleanName(h[r].columns[j])]
        c == Copy(h, r)
    IN  [heap |-> [c.heap EXCEPT ![c.ref] = SetColumns(c.heap[c.ref], new_cols)],
         ret |-> c.ref, ok |-> TRUE]

\* the list comprehension of strip_product_and_category
target_cols(df) ==
    SelectSeq(df.columns, LAMBDA c : Contains(c, PRODUCT) \/ Contains(c, CATEGORY))

\* df[col].astype(str).str.strip()
StripSeries(series) ==
    [i \in 1..Len(series) |-> StrCell(StrStrip(CellAsStr(series[i])))]

\* the for loop of strip_product_and_category; a duplicated label makes
\* df[col] a DataFrame, which has no .str, and the call raises
RECURSIVE StripLoop(_, _)
StripLoop(df, cols) ==
    IF cols = <<>> THEN [df |-> df, ok |-> TRUE]
    ELSE IF ~IsSeriesKey(df, Head(cols)) THEN [df |-> df, ok |-> FALSE]
    ELSE StripLoop(SetItem(df, Head(cols),
                           StripSeries(Column(df, PositionOf(df, Head(cols))))),
                   Tail(cols))

strip_product_and_category(h, r) ==
    LET c == Copy(h, r)
        s == StripLoop(c.heap[c.ref], target_cols(c.heap[c.ref]))
    IN  [heap |-> [c.heap EXCEPT ![c.ref] = s.df],
         ret |-> IF s.ok THEN c.ref ELSE 0, ok |-> s.ok]

\* for col in ("price", "quantity"): if col in df.columns:
\*     df[col] = pd.to_numeric(df[col], errors="coerce")
\* pd.to_numeric raises on the DataFrame a duplicated label yields
RECURSIVE CoerceLoop(_, _)
CoerceLoop(df, cols) ==
    IF cols = <<>> THEN [df |-> df, ok |-> TRUE]
    ELSE IF ~HasColumn(df, Head(cols)) THEN CoerceLoop(df, Tail(cols))
    ELSE IF ~IsSeriesKey(df, Head(cols)) THEN [df |-> df, ok |-> FALSE]
    ELSE CoerceLoop(SetItem(df, Head(cols),
                            ToNumeric(Column(df, PositionOf(df, Head(cols))))),
                    Tail(cols))

handle_missing_values(h, r) ==
    LET c == Copy(h, r)
        co == CoerceLoop(c.heap[c.ref], <<PRICE, QUANTITY>>)
        h1 == [c.heap EXCEPT ![c.ref] = co.df]
        required_cols == SelectSeq(<<PRICE, QUANTITY>>, LAMBDA x : HasColumn(co.df, x))
    IN  IF ~co.ok THEN [heap |-> h1, ret |-> 0, ok |-> FALSE]
        ELSE IF required_cols # <<>>
        THEN [heap |-> Append(h1, DropNa(co.df, required_cols)),
              ret |-> Len(h1) + 1, ok |-> TRUE]
        ELSE [heap |-> h1, ret |-> c.ref, ok |-> TRUE]

\* if col in df.columns: df = df[df[col] >= 0]
FilterNonNegative(h, r, col) ==
    IF HasColumn(h[r], col)
    THEN [heap |-> Append(h, BoolIndex(h[r],
                      [i \in 1..Len(h[r].rows) |->
                          GeZero(h[r].rows[i][PositionOf(h[r], col)])])),
          ref |-> Len(h) + 1]
    ELSE [heap |-> h, ref |-> r]

remove_invalid_rows(h, r) ==
    LET c == Copy(h, r)
        co == CoerceLoop(c.heap[c.ref], <<PRICE, QUANTITY>>)
        h1 == [c.heap EXCEPT ![c.ref] = co.df]
        f1 == FilterNonNegative(h1, c.ref, PRICE)
        f2 == FilterNonNegative(f1.heap, f1.ref, QUANTITY)
    IN  IF ~co.ok THEN [heap |-> h1, ret |-> 0, ok |-> FALSE]
        ELSE [heap |-> f2.heap, ret |-> f2.ref, ok |-> TRUE]

\* a cell as to_csv writes it: a missing cell is the empty text
CellText(cell) == IF IsNa(cell) THEN <<>> ELSE CellAsStr(cell)

\* df.to_csv(path, index=False): the header row, then one line per row
ToCsv(df) ==
    [exists |-> TRUE,
     header |-> df.columns,
     lines |-> [i \in 1..Len(df.rows) |->
                   [j \in 1..Len(df.columns) |-> CellText(df.rows[i][j])]]]

\* ------------------------------------------------------------------ inputs

\* the texts a cell of the input file may hold (the empty text is a blank)
NumTexts == {<<>>, <<"0">>, <<"-", "5">>, <<"a">>}
OtherTexts == {<<>>, <<" ", "w", " ", " ", "w", " ">>, <<"5">>}

TextsFor(label) ==
    IF CleanName(label) \in {PRICE, QUANTITY} THEN NumTexts ELSE OtherTexts

\* the header rows of the input files of the pipeline
Headers ==
    { << <<"P","r","i","c","e">>, <<"Q","u","a","n","t","i","t","y">> >>,
      << <<" ","P","r","o","d","u","c","t">>, <<"p","r","i","c","e">> >>,
      << <<"C","a","t","e","g","o","r","y">>, <<"Q","t","y">> >>,
      << <<"P","R","I","C","E">>, <<"p","r","i","c","e">> >>,
      << <<"P","r","o","d","u","c","t">>, <<"p","r","o","d","u","c","t">> >>,
      << <<"q","u","a","n","t","i","t","y">>, <<"I","d">> >> }

LinesFor(header) ==
    LET RowSet == {r \in [1..Len(header) -> NumTexts \cup OtherTexts] :
                      \A j \in 1..Len(header) : r[j] \in TextsFor(header[j])}
    IN  UNION {[1..n -> RowSet] : n \in 0..MaxRows}

RawFiles ==
    UNION {{[exists |-> TRUE, header |-> hd, lines |-> l] : l \in LinesFor(hd)} : hd \in Headers}

\* the labels the header normalizer is tried on
LabelAlphabet == {"A", "a", " ", "\t", "/", "-", "_"}
Labels == UNION {[1..n -> LabelAlphabet] : n \in 1..MaxLabelLen}
SecondLabels == {<<"a">>, <<"A">>, <<"_">>}

LabelFiles ==
    {[exists |-> TRUE, header |-> <<l>>, lines |-> << <<(<<"5">>)>> >>] : l \in Labels}
    \cup {[exists |-> TRUE, header |-> <<l, m>>, lines |-> << <<(<<"5">>), (<<"w">>)>> >>] :
             l \in Labels, m \in SecondLabels}

\* ---------------------------------------------------------------- pipeline
\* The __main__ block: load, the four stages in order, to_csv, print.

Init ==
    /\ raw_file \in RawFiles \cup {NoFile}
    /\ heap = <<>>
    /\ df_raw = 0
    /\ df_clean = 0
    /\ pc = "start"
    /\ out_file = NoFile

\* df_raw = load_data(raw_path)
LoadData ==
    /\ pc = "start"
    /\ LET res == load_data(heap, raw_file)
       IN  /\ heap' = res.heap
           /\ df_raw' = res.ret
           /\ pc' = IF res.ok THEN "loaded" ELSE "failed"
    /\ UNCHANGED <<raw_file, df_clean, out_file>>

\* df_clean = clean_column_names(df_raw)
CleanColumnNames ==
    /\ pc = "loaded"
    /\ LET res == clean_column_names(heap, df_raw)
       IN  /\ heap' = res.heap
           /\ df_clean' = res.ret
           /\ pc' = IF res.ok THEN "named" ELSE "failed"
    /\ UNCHANGED <<raw_file, df_raw, out_file>>

\* df_clean = strip_product_and_category(df_clean)
StripProductAndCategory ==
    /\ pc = "named"
    /\ LET res == strip_product_and_category(heap, df_clean)
       IN  /\ heap' = res.heap
           /\ df_clean' = IF res.ok THEN res.ret ELSE df_clean
           /\ pc' = IF res.ok THEN "stripped" ELSE "failed"
    /\ UNCHANGED <<raw_file, df_raw, out_file>>

\* df_clean = handle_missing_values(df_clean)
HandleMissingValues ==
    /\ pc = "stripped"
    /\ LET res == handle_missing_values(heap, df_clean)
       IN  /\ heap' = res.heap
           /\ df_clean' = IF res.ok THEN res.ret ELSE df_clean
           /\ pc' = IF res.ok THEN "filled" ELSE "failed"
    /\ UNCHANGED <<raw_file, df_raw, out_file>>

\* df_clean = remove_invalid_rows(df_clean)
RemoveInvalidRows ==
    /\ pc = "filled"
    /\ LET res == remove_invalid_rows(heap, df_clean)
       IN  /\ heap' = res.heap
           /\ df_clean' = IF res.ok THEN res.ret ELSE df_clean
           /\ pc' = IF res.ok THEN "filtered" ELSE "failed"
    /\ UNCHANGED <<raw_file, df_raw, out_file>>

\* a writer that runs as soon as stage 4 has returned
SaveCsvEarly ==
    /\ pc = "filled"
    /\ out_file' = ToCsv(heap[df_clean])
    /\ pc' = "saved"
    /\ UNCHANGED <<raw_file, heap, df_raw, df_clean>>

\* df_clean.to_csv(cleaned_path, index=False), the destination writable
SaveCsv ==
    /\ pc = "filtered"
    /\ out_file' = ToCsv(heap[df_clean])
    /\ pc' = "saved"
    /\ UNCHANGED <<raw_file, heap, df_raw, df_clean>>

\* to_csv raises: the destination cannot be created (no data/processed)
SaveCsvFails ==
    /\ pc = "filtered"
    /\ pc' = "failed"
    /\ UNCHANGED <<raw_file, heap, df_raw, df_clean, out_file>>

\* print("Cleaning complete. First few rows:"); print(df_clean.head())
PrintHead ==
    /\ pc = "saved"
    /\ pc' = "done"
    /\ UNCHANGED <<raw_file, heap, df_raw, df_clean, out_file>>

Next ==
    \/ LoadData
    \/ CleanColumnNames
    \/ StripProductAndCategory
    \/ HandleMissingValues
    \/ RemoveInvalidRows
    \/ SaveCsv
    \/ SaveCsvFails
    \/ PrintHead

Spec == Init /\ [][Next]_vars

\* ------------------------------------------------------- calls of one stage
\* A caller that holds a DataFrame (a file as read, or read and normalized)
\* in df_raw and calls one stage on it: df_clean = stage(df_raw).

InitCalls ==
    /\ raw_file \in RawFiles
    /\ \E normalized \in BOOLEAN :
          IF normalized
          THEN /\ heap = clean_column_names(<<ReadCsv(raw_file)>>, 1).heap
               /\ df_raw = 2
          ELSE /\ heap = <<ReadCsv(raw_file)>>
               /\ df_raw = 1
    /\ df_clean = 0
    /\ pc = "idle"
    /\ out_file = NoFile

Return(res, to) ==
    /\ heap' = res.heap
    /\ df_clean' = res.ret
    /\ pc' = IF res.ok THEN to ELSE "raised"
    /\ UNCHANGED <<raw_file, df_raw, out_file>>

CallCleanColumnNames ==
    pc = "idle" /\ Return(clean_column_names(heap, df_raw), "ret_clean")

CallStripProductAndCategory ==
    pc = "idle" /\ Return(strip_product_and_category(heap, df_raw), "ret_strip")

CallHandleMissingValues ==
    pc = "idle" /\ Return(handle_missing_values(heap, df_raw), "ret_missing")

CallRemoveInvalidRows ==
    pc = "idle" /\ Return(remove_invalid_rows(heap, df_raw), "ret_invalid")

NextCalls ==
    \/ CallCleanColumnNames
    \/ CallStripProductAndCategory
    \/ CallHandleMissingValues
    \/ CallRemoveInvalidRows

SpecCalls == InitCalls /\ [][NextCalls]_vars

\* ------------------------------------------- the header normalizer on labels
\* A caller that reads a file with arbitrary header labels and normalizes
\* them, then normalizes the result again.

InitLabels ==
    /\ raw_file \in LabelFiles
    /\ heap = <<ReadCsv(raw_file)>>
    /\ df_raw = 1
    /\ df_clean = 0
    /\ pc = "idle"
    /\ out_file = NoFile

\* df_clean = clean_column_names(df_clean), on the result of the first call
CallCleanColumnNamesAgain ==
    /\ pc = "ret_clean"
    /\ LET res == clean_column_names(heap, df_clean)
       IN  /\ heap' = res.heap
           /\ df_clean' = res.ret
           /\ df_raw' = df_clean
           /\ pc' = "ret_clean_again"
    /\ UNCHANGED <<raw_file, out_file>>

NextLabels ==
    \/ CallCleanColumnNames
    \/ CallCleanColumnNamesAgain

SpecLabels == InitLabels /\ [][NextLabels]_vars

\* ------------------------------------------------------------------ claims

InDf == heap[df_raw]
OutDf == heap[df_clean]

Range(s) == {s[i] : i \in 1..Len(s)}

Designated == {PRICE, QUANTITY}

IsTextLabel(label) == Contains(label, PRODUCT) \/ Contains(label, CATEGORY)

\* a standard decimal number, optionally signed (integral, as the cells are)
IsDecimalText(x) ==
    \/ AllDigits(x)
    \/ x # <<>> /\ Head(x) \in {"-", "+"} /\ AllDigits(Tail(x))

Coercible(cell) ==
    cell.t \in {"int", "float"} \/ (cell.t = "str" /\ IsDecimalText(cell.s))

IsNumber(cell) == cell.t \in {"int", "float"}

RECURSIVE IsSubseq(_, _)
IsSubseq(a, b) ==
    IF a = <<>> THEN TRUE
    ELSE IF b = <<>> THEN FALSE
    ELSE IF Head(a) = Head(b) THEN IsSubseq(Tail(a), Tail(b))
    ELSE IsSubseq(a, Tail(b))

\* y is x without its leading and trailing whitespace, the inside untouched
IsTrimOf(y, x) ==
    /\ y # <<>> => (Head(y) \notin Whitespace /\ y[Len(y)] \notin Whitespace)
    /\ \E a \in 0..Len(x) : \E b \in 0..(Len(x) - a) :
          /\ y = SubSeq(x, a + 1, Len(x) - b)
          /\ \A k \in 1..a : x[k] \in Whitespace
          /\ \A k \in (Len(x) - b + 1)..Len(x) : x[k] \in Whitespace

\* C1 as stated: every label the Header Normalizer produces is lowercase,
\* holds no whitespace character anywhere, no '/', no '-' and no two
\* consecutive underscores.
C1_LabelsHaveNoWhitespace ==
    pc = "ret_clean" =>
        \A j \in 1..Len(OutDf.columns) :
            LET name == OutDf.columns[j]
            IN  /\ \A i \in 1..Len(name) : ~IsUpper(name[i])
                /\ \A i \in 1..Len(name) : name[i] \notin Whitespace
                /\ \A i \in 1..Len(name) : name[i] \notin {"/", "-"}
                /\ ~HasDoubleUnderscore(name)

\* C1 amended: every label the Header Normalizer produces is lowercase, has
\* no leading or trailing whitespace, holds no space character, no '/', no
\* '-' and no two consecutive underscores.
C1_LabelsNormalized ==
    pc = "ret_clean" =>
        \A j \in 1..Len(OutDf.columns) :
            LET name == OutDf.columns[j]
            IN  /\ \A i \in 1..Len(name) : ~IsUpper(name[i])
                /\ name # <<>> =>
                      (Head(name) \notin Whitespace /\ name[Len(name)] \notin Whitespace)
                /\ \A i \in 1..Len(name) : name[i] \notin {" ", "/", "-"}
                /\ ~HasDoubleUnderscore(name)

C1_Witness ==
    /\ pc = "ret_clean"
    /\ InDf.columns[1] = <<" ", "A", "-">>
    /\ OutDf.columns[1] = <<"a", "_">>

\* C2: normalizing the labels of an already normalized dataset gives the
\* same labels in the same order.
C2_NormalizerIdempotent ==
    pc = "ret_clean_again" => OutDf.columns = InDf.columns

C2_Witness ==
    /\ pc = "ret_clean_again"
    /\ Len(InDf.columns) = 2
    /\ heap[1].columns # InDf.columns
    /\ OutDf.columns = InDf.columns

\* two distinct labels of the input at positions i < j with one normalized form
Collide(df, i, j) ==
    /\ i < j
    /\ df.columns[i] # df.columns[j]
    /\ CleanName(df.columns[i]) = CleanName(df.columns[j])

HasCollision(df) ==
    \E i \in 1..Len(df.columns) : \E j \in 1..Len(df.columns) : Collide(df, i, j)

\* C9 as stated: on a collision the normalizer does not fail, the later
\* column takes over the earlier one's place in the column set (one column is
\* left under the label, holding the later column's cells), rows unchanged
\* in number.
C9_LaterColumnOverwrites ==
    (pc \in {"ret_clean", "raised"} /\ HasCollision(InDf)) =>
        /\ pc = "ret_clean"
        /\ Len(OutDf.rows) = Len(InDf.rows)
        /\ \A i \in 1..Len(InDf.columns) : \A j \in 1..Len(InDf.columns) :
              (Collide(InDf, i, j)
               /\ \A k \in (j + 1)..Len(InDf.columns) : ~Collide(InDf, j, k)) =>
                  /\ IsSeriesKey(OutDf, CleanName(InDf.columns[j]))
                  /\ Column(OutDf, PositionOf(OutDf, CleanName(InDf.columns[j])))
                        = Column(InDf, j)

\* C9 amended: on a collision the normalizer does not fail and resolves
\* nothing: both columns stay, each at its position with its cells, under
\* the same label; no column is overwritten and no row is added or removed.
C9_CollidingColumnsBothKept ==
    (pc \in {"ret_clean", "raised"} /\ HasCollision(InDf)) =>
        /\ pc = "ret_clean"
        /\ Len(OutDf.columns) = Len(InDf.columns)
        /\ OutDf.rows = InDf.rows
        /\ OutDf.index = InDf.index
        /\ \A i \in 1..Len(InDf.columns) : \A j \in 1..Len(InDf.columns) :
              Collide(InDf, i, j) =>
                  /\ OutDf.columns[i] = OutDf.columns[j]
                  /\ Column(OutDf, i) = Column(InDf, i)
                  /\ Column(OutDf, j) = Column(InDf, j)

C9_Witness ==
    /\ pc = "ret_clean"
    /\ InDf.columns = << <<"A">>, <<"a">> >>
    /\ OutDf.columns = << <<"a">>, <<"a">> >>
    /\ OutDf.rows = << <<IntCell(5), StrCell(<<"w">>)>> >>

\* C3: after the Missing-Value Resolver every surviving row holds a number in
\* price and in quantity (whichever exist), and every input row with a
\* missing or non-coercible cell there is gone.
C3_NoMissingAfterResolver ==
    pc = "ret_missing" =>
        /\ \A i \in 1..Len(OutDf.rows) : \A j \in 1..Len(OutDf.columns) :
              OutDf.columns[j] \in Designated => IsNumber(OutDf.rows[i][j])
        /\ \A i \in 1..Len(InDf.rows) :
              (\E j \in 1..Len(InDf.columns) :
                  InDf.columns[j] \in Designated /\ ~Coercible(InDf.rows[i][j]))
              => InDf.index[i] \notin Range(OutDf.index)

C3_Witness ==
    /\ pc = "ret_missing"
    /\ InDf.columns = <<PRICE, QUANTITY>>
    /\ Len(InDf.rows) = 2
    /\ InDf.rows[1][1] = StrCell(<<"0">>)
    /\ InDf.rows[1][2] = NaN
    /\ InDf.rows[2][1] = StrCell(<<"a">>)
    /\ OutDf.rows = <<>>

\* C4: after the Invalid-Row Filter, called on any dataset, every surviving
\* row holds a number >= 0 in price and in quantity (whichever exist), and
\* every input row with a missing, non-coercible or negative cell there is gone.
C4_NonNegativeAfterFilter ==
    pc = "ret_invalid" =>
        /\ \A i \in 1..Len(OutDf.rows) : \A j \in 1..Len(OutDf.columns) :
              OutDf.columns[j] \in Designated =>
                  (IsNumber(OutDf.rows[i][j]) /\ OutDf.rows[i][j].v >= 0)
        /\ \A i \in 1..Len(InDf.rows) :
              (\E j \in 1..Len(InDf.columns) :
                  /\ InDf.columns[j] \in Designated
                  /\ (~Coercible(InDf.rows[i][j]) \/ CoerceCell(InDf.rows[i][j]).v < 0))
              => InDf.index[i] \notin Range(OutDf.index)

C4_Witness ==
    /\ pc = "ret_invalid"
    /\ InDf.columns[1] = QUANTITY
    /\ Len(InDf.rows) = 2
    /\ InDf.rows[1][1] = NaN
    /\ InDf.rows[2][1] = FloatCell(0)
    /\ OutDf.index = <<1>>
    /\ OutDf.rows[1][1] = FloatCell(0)

\* C5: the Header Normalizer and the Text Trimmer return the input rows, all
\* of them and in order; the Missing-Value Resolver and the Invalid-Row
\* Filter return an order-preserving subsequence of the input rows.
C5_RowsNeverAddedOrReordered ==
    /\ pc = "ret_clean" => (OutDf.index = InDf.index /\ OutDf.rows = InDf.rows)
    /\ pc = "ret_strip" =>
          (OutDf.index = InDf.index /\ Len(OutDf.rows) = Len(InDf.rows))
    /\ pc \in {"ret_missing", "ret_invalid"} =>
          /\ IsSubseq(OutDf.index, InDf.index)
          /\ Len(OutDf.rows) = Len(OutDf.index)
          /\ Len(OutDf.rows) <= Len(InDf.rows)
          /\ \A i \in 1..Len(OutDf.rows) : \A j \in 1..Len(OutDf.columns) :
                OutDf.columns[j] \notin Designated =>
                    \E k \in 1..Len(InDf.rows) :
                        /\ InDf.index[k] = OutDf.index[i]
                        /\ InDf.rows[k][j] = OutDf.rows[i][j]

C5_Witness ==
    /\ pc = "ret_invalid"
    /\ Len(InDf.rows) = 2
    /\ OutDf.index = InDf.index
    /\ \E j \in 1..Len(InDf.columns) : InDf.columns[j] \in Designated

\* C6: a stage changes no DataFrame that existed when it was called, its
\* argument included, and what it returns is an object of its own.
C6_InputLeftUnmodified ==
    [][/\ Len(heap') >= Len(heap)
       /\ \A r \in 1..Len(heap) : heap'[r] = heap[r]
       /\ df_clean' # df_clean => df_clean' > Len(heap)]_vars

C6_Witness ==
    /\ pc = "ret_missing"
    /\ df_clean # df_raw
    /\ OutDf # InDf
    /\ Len(OutDf.rows) < Len(InDf.rows)

\* the dataset the five steps before the writer compute from a file
Cleaned(file) ==
    LET a == load_data(<<>>, file)
        b == clean_column_names(a.heap, a.ret)
        c == strip_product_and_category(b.heap, b.ret)
        d == handle_missing_values(c.heap, c.ret)
        e == remove_invalid_rows(d.heap, d.ret)
    IN  IF ~a.ok THEN [ok |-> FALSE]
        ELSE IF ~c.ok THEN [ok |-> FALSE]
        ELSE IF ~d.ok THEN [ok |-> FALSE]
        ELSE IF ~e.ok THEN [ok |-> FALSE]
        ELSE [ok |-> TRUE, df |-> e.heap[e.ret]]

\* C7: the output file exists only once the loader and the four stages have
\* all returned, and then it holds the dataset stage 5 returned; a run that
\* failed or has not reached the writer has written nothing.
C7_WriterOnlyAfterAllStages ==
    /\ out_file.exists =>
          /\ pc \in {"saved", "done"}
          /\ Cleaned(raw_file).ok
          /\ out_file = ToCsv(Cleaned(raw_file).df)
          /\ out_file = ToCsv(OutDf)
    /\ pc \notin {"saved", "done"} => out_file = NoFile

C7_Witness ==
    /\ pc = "done"
    /\ out_file.exists
    /\ Len(raw_file.lines) = 2
    /\ Len(out_file.lines) = 1
    /\ out_file.header = <<PRICE, QUANTITY>>

\* C8: the Text Trimmer returns its input with, in every column whose label
\* contains "product" or "category", each cell replaced by its string form
\* less the leading and trailing whitespace, and every other cell as it was.
C8_TrimmerTouchesOnlyTextColumns ==
    pc = "ret_strip" =>
        /\ OutDf.columns = InDf.columns
        /\ OutDf.index = InDf.index
        /\ Len(OutDf.rows) = Len(InDf.rows)
        /\ \A i \in 1..Len(InDf.rows) : \A j \in 1..Len(InDf.columns) :
              LET old == InDf.rows[i][j]
                  new == OutDf.rows[i][j]
              IN  IF IsTextLabel(InDf.columns[j])
                  THEN /\ new.t = "str"
                       /\ old.t = "str" => IsTrimOf(new.s, old.s)
                       /\ old.t = "int" => new.s = IntStr(old.v)
                       /\ old.t = "float" => new.s = IntStr(old.v) \o <<".", "0">>
                       /\ old.t = "nan" => new.s = <<"n", "a", "n">>
                  ELSE new = old

C8_Witness ==
    /\ pc = "ret_strip"
    /\ InDf.columns = <<PRODUCT, PRICE>>
    /\ Len(InDf.rows) = 2
    /\ InDf.rows[1][1] = StrCell(<<" ", "w", " ", " ", "w", " ">>)
    /\ OutDf.rows[1][1] = StrCell(<<"w", " ", " ", "w">>)
    /\ InDf.rows[2][1] = NaN
    /\ OutDf.rows[2][1] = StrCell(<<"n", "a", "n">>)
    /\ OutDf.rows[2][2] = InDf.rows[2][2]

\* the dataset stage 4 was given in the pipeline (the objects are allocated
\* in order: the loaded one, the normalizer's, the trimmer's) and the one
\* it returned
Stage4Input == heap[df_raw + 2]

Stage4Output ==
    LET d == handle_missing_values(<<Stage4Input>>, 1) IN d.heap[d.ret]

\* C10: what the pipeline has after stage 5 is what the Invalid-Row Filter
\* returns when given stage 4's input directly, and every row of it is a
\* row of stage 4's output, cell for cell.
C10_FilterSubsumesResolver ==
    pc \in {"filtered", "saved", "done"} =>
        LET direct == remove_invalid_rows(<<Stage4Input>>, 1)
        IN  /\ direct.ok
            /\ OutDf = direct.heap[direct.ret]
            /\ \A i \in 1..Len(OutDf.rows) :
                  \E k \in 1..Len(Stage4Output.rows) :
                      /\ Stage4Output.index[k] = OutDf.index[i]
                      /\ Stage4Output.rows[k] = OutDf.rows[i]

C10_Witness ==
    /\ pc = "filtered"
    /\ Stage4Input.columns = <<PRICE, QUANTITY>>
    /\ Len(Stage4Input.rows) = 2
    /\ Stage4Input.rows[1][1] = NaN
    /\ Len(Stage4Output.rows) = 1
    /\ OutDf.index = <<1>>
    /\ OutDf.rows[1][1] = FloatCell(0)

====
